---- MODULE Spec2Model ----
(***************************************************************************)
(* Model of the team inference of snowball_plot.py: infer_teams propagates *)
(* the seed teams over the attacker/victim rows until a pass commits       *)
(* nothing.  The model steps through the while loop, the sweep over the    *)
(* rows and the loop over the evidence items one iteration at a time.      *)
(***************************************************************************)
EXTENDS Integers, Sequences, FiniteSets, TLC

\* ------------------------------------------------------------------------
\* Bounds of the model
\* ------------------------------------------------------------------------
MaxRows == 3
MaxCount == 7
MaxLate == 2
MaxPasses == 6

Users == {"X", "Y", "Z", "W"}
SmallUsers == {"X", "Y", "Z"}

\* ------------------------------------------------------------------------
\* Values
\* ------------------------------------------------------------------------
Reindeer == "Reindeer"
Penguin == "Penguin"
Faction == {Reindeer, Penguin}
NoCommit == "NoCommit"

\* rows           the frame df: its (Attacker, Victim) pairs in row order
\* seeds          user_teams of main, of which infer_teams gets a copy
\* current_teams  the dict infer_teams works on and returns
\* changed        the flag of the while loop
\* evidence       the evidence dict of the pass, its items in insertion order
\* i, j           the positions of the sweep over rows and of the commit loop
\* pc             the position in infer_teams
\* passes         history: the number of passes entered
\* pass_start     history: current_teams as it was when the pass was entered
\* deferred       history: the evidence items the commit loop left unlabeled
\* stats_df       the frame of main after the Unknowns are dropped, as the
\*                set of its rows
VARIABLES rows, seeds, current_teams, changed, evidence, i, j, pc,
          passes, pass_start, deferred, stats_df

vars == <<rows, seeds, current_teams, changed, evidence, i, j, pc,
          passes, pass_start, deferred, stats_df>>

\* ------------------------------------------------------------------------
\* Dictionaries
\* ------------------------------------------------------------------------
\* a rebinding that forgets the labels committed before
PutFresh(d, k, v) == [x \in {k} |-> v]

\* a write that is lost (made on a copy of the dict)
PutLost(d, k, v) == d

\* current_teams[user] = team
Put(d, k, v) == [x \in DOMAIN d \cup {k} |-> IF x = k THEN v ELSE d[x]]

\* the keys of the evidence dict, which keeps its items in insertion order
Keys(ev) == {ev[k].user : k \in 1..Len(ev)}

\* a plain assignment of the zero counts, which forgets earlier votes
SetDefaultReset(ev, user) ==
    IF user \in Keys(ev)
    THEN [k \in 1..Len(ev) |->
            IF ev[k].user = user
            THEN [user |-> user, Reindeer |-> 0, Penguin |-> 0]
            ELSE ev[k]]
    ELSE Append(ev, [user |-> user, Reindeer |-> 0, Penguin |-> 0])

\* evidence.setdefault(user, {"Reindeer": 0, "Penguin": 0})
SetDefault(ev, user) ==
    IF user \in Keys(ev)
    THEN ev
    ELSE Append(ev, [user |-> user, Reindeer |-> 0, Penguin |-> 0])

\* evidence[user][target] += 1
Incr(ev, user, target) ==
    [k \in 1..Len(ev) |->
        IF ev[k].user = user THEN [ev[k] EXCEPT ![target] = @ + 1] ELSE ev[k]]

\* target = "Penguin" if team == "Reindeer" else "Reindeer"
Opposite(team) == IF team = Reindeer THEN Penguin ELSE Reindeer

\* a guard that lets every participant be relabeled
UnlabeledAlways(teams, user) == TRUE

\* user not in current_teams
Unlabeled(teams, user) == user \notin DOMAIN teams

\* one of the two ifs of the sweep: the known endpoint votes on the other one
VoteFrom(ev, teams, known, other) ==
    IF known \in DOMAIN teams /\ Unlabeled(teams, other)
    THEN Incr(SetDefault(ev, other), other, Opposite(teams[known]))
    ELSE ev

\* dominance that also holds at exactly double
DecideInclusive(r, p) ==
    IF r >= p * 2 /\ r > 0 THEN Reindeer
    ELSE IF p >= r * 2 /\ p > 0 THEN Penguin
    ELSE NoCommit

\* dominance by a plain majority, the factor 2 forgotten
DecideMajority(r, p) ==
    IF r > p /\ r > 0 THEN Reindeer
    ELSE IF p > r /\ p > 0 THEN Penguin
    ELSE NoCommit

\* the two teams mixed up in the branches
DecideSwapped(r, p) ==
    IF r > p * 2 /\ r > 0 THEN Penguin
    ELSE IF p > r * 2 /\ p > 0 THEN Reindeer
    ELSE IF r > 0 /\ p = 0 THEN Penguin
    ELSE IF p > 0 /\ r = 0 THEN Reindeer
    ELSE NoCommit

\* a Reindeer branch that also takes the exact double
DecideReindeerFirst(r, p) ==
    IF r >= p * 2 /\ r > 0 THEN Reindeer
    ELSE IF p > r * 2 /\ p > 0 THEN Penguin
    ELSE NoCommit

\* dominance branches that ask for a positive other count
BranchBothPositive(r, p) ==
    IF r > p * 2 /\ p > 0 THEN 1
    ELSE IF p > r * 2 /\ r > 0 THEN 2
    ELSE IF r > 0 /\ p = 0 THEN 3
    ELSE IF p > 0 /\ r = 0 THEN 4
    ELSE 0

\* the branch of the chained conditionals of the commit loop that is taken:
\* 1 and 2 the dominance rules, 3 and 4 the one-sided rules, 0 none
Branch(r, p) ==
    IF r > p * 2 /\ r > 0 THEN 1
    ELSE IF p > r * 2 /\ p > 0 THEN 2
    ELSE IF r > 0 /\ p = 0 THEN 3
    ELSE IF p > 0 /\ r = 0 THEN 4
    ELSE 0

\* the team the branch taken writes: branches 1 and 3 Reindeer, 2 and 4
\* Penguin
Decide(r, p) ==
    IF Branch(r, p) \in {1, 3} THEN Reindeer
    ELSE IF Branch(r, p) \in {2, 4} THEN Penguin
    ELSE NoCommit

\* ------------------------------------------------------------------------
\* Inputs
\* ------------------------------------------------------------------------
TeamMaps(U) == UNION {[S -> Faction] : S \in SUBSET U}

RowSeqs(U, n) == UNION {[1..k -> U \X U] : k \in 0..n}

Rep(row, n) == [k \in 1..n |-> row]

\* every frame of at most MaxRows rows over three users with every seeding
InitSmall ==
    /\ rows \in RowSeqs(SmallUsers, MaxRows)
    /\ seeds \in TeamMaps(SmallUsers)

\* X and Y seeded; Z is attacked a times by X and attacks Y b times; W is
\* attacked w times by X and attacks Z c times
InitTally ==
    \E a \in 0..MaxCount, b \in 0..MaxCount, w \in 0..1, c \in 0..MaxLate,
       fx \in Faction, fy \in Faction :
        /\ rows = Rep(<<"X", "W">>, w) \o Rep(<<"X", "Z">>, a)
                    \o Rep(<<"Z", "Y">>, b) \o Rep(<<"W", "Z">>, c)
        /\ seeds = [u \in {"X", "Y"} |-> IF u = "X" THEN fx ELSE fy]

Init ==
    /\ InitSmall \/ InitTally
    /\ current_teams = seeds
    /\ changed = TRUE
    /\ evidence = << >>
    /\ i = 1
    /\ j = 1
    /\ pc = "while"
    /\ passes = 0
    /\ pass_start = seeds
    /\ deferred = {}
    /\ stats_df = {}

\* ------------------------------------------------------------------------
\* infer_teams
\* ------------------------------------------------------------------------
\* a loop head that forgets to reset changed
EnterPassNoReset ==
    /\ pc = "while"
    /\ changed
    /\ passes < MaxPasses
    /\ evidence' = << >>
    /\ i' = 1
    /\ pc' = "rows"
    /\ passes' = passes + 1
    /\ pass_start' = current_teams
    /\ UNCHANGED <<rows, seeds, current_teams, changed, j, deferred,
                   stats_df>>

\* a loop head that keeps the evidence of the pass before
EnterPassStale ==
    /\ pc = "while"
    /\ changed
    /\ passes < MaxPasses
    /\ changed' = FALSE
    /\ i' = 1
    /\ pc' = "rows"
    /\ passes' = passes + 1
    /\ pass_start' = current_teams
    /\ UNCHANGED <<rows, seeds, current_teams, evidence, j, deferred,
                   stats_df>>

\* while changed: changed = False; evidence = {}
EnterPass ==
    /\ pc = "while"
    /\ changed
    /\ passes < MaxPasses
    /\ changed' = FALSE
    /\ evidence' = << >>
    /\ i' = 1
    /\ pc' = "rows"
    /\ passes' = passes + 1
    /\ pass_start' = current_teams
    /\ UNCHANGED <<rows, seeds, current_teams, j, deferred,
                   stats_df>>

\* a sweep that labels a participant as soon as a row votes on it
EvidenceRowEager ==
    /\ pc = "rows"
    /\ i <= Len(rows)
    /\ LET att == rows[i][1]
           vic == rows[i][2]
           ev1 == VoteFrom(evidence, current_teams, att, vic)
       IN  /\ evidence' = VoteFrom(ev1, current_teams, vic, att)
           /\ IF att \in DOMAIN current_teams /\ vic \notin DOMAIN current_teams
              THEN /\ current_teams' =
                        Put(current_teams, vic, Opposite(current_teams[att]))
                   /\ changed' = TRUE
              ELSE IF vic \in DOMAIN current_teams
                        /\ att \notin DOMAIN current_teams
              THEN /\ current_teams' =
                        Put(current_teams, att, Opposite(current_teams[vic]))
                   /\ changed' = TRUE
              ELSE UNCHANGED <<current_teams, changed>>
    /\ i' = i + 1
    /\ UNCHANGED <<rows, seeds, j, pc, passes, pass_start, deferred,
                   stats_df>>

\* one iteration of: for _, row in df.iterrows()
EvidenceRow ==
    /\ pc = "rows"
    /\ i <= Len(rows)
    /\ LET att == rows[i][1]
           vic == rows[i][2]
           ev1 == VoteFrom(evidence, current_teams, att, vic)
       IN  evidence' = VoteFrom(ev1, current_teams, vic, att)
    /\ i' = i + 1
    /\ UNCHANGED <<rows, seeds, current_teams, changed, j, pc, passes,
                   pass_start, deferred,
                   stats_df>>

\* the sweep is exhausted: for user, counts in evidence.items()
EndSweep ==
    /\ pc = "rows"
    /\ i > Len(rows)
    /\ pc' = "commit"
    /\ j' = 1
    /\ UNCHANGED <<rows, seeds, current_teams, changed, evidence, i, passes,
                   pass_start, deferred,
                   stats_df>>

\* a commit loop whose Penguin branches forget to set changed
CommitUserNoFlag ==
    /\ pc = "commit"
    /\ j <= Len(evidence)
    /\ LET user == evidence[j].user
           team == Decide(evidence[j].Reindeer, evidence[j].Penguin)
       IN  /\ IF ~Unlabeled(current_teams, user) \/ team = NoCommit
              THEN UNCHANGED <<current_teams, changed>>
              ELSE /\ current_teams' = Put(current_teams, user, team)
                   /\ changed' = (changed \/ team = Reindeer)
           /\ deferred' = IF Unlabeled(current_teams, user) /\ team = NoCommit
                          THEN deferred \cup {evidence[j]}
                          ELSE deferred
    /\ j' = j + 1
    /\ UNCHANGED <<rows, seeds, evidence, i, pc, passes, pass_start,
                   stats_df>>

\* a commit loop that commits at most one participant per pass
CommitUserOncePerPass ==
    /\ pc = "commit"
    /\ j <= Len(evidence)
    /\ LET user == evidence[j].user
           team == Decide(evidence[j].Reindeer, evidence[j].Penguin)
       IN  /\ IF ~Unlabeled(current_teams, user) \/ team = NoCommit \/ changed
              THEN UNCHANGED <<current_teams, changed>>
              ELSE /\ current_teams' = Put(current_teams, user, team)
                   /\ changed' = TRUE
           /\ deferred' = IF Unlabeled(current_teams, user) /\ team = NoCommit
                          THEN deferred \cup {evidence[j]}
                          ELSE deferred
    /\ j' = j + 1
    /\ UNCHANGED <<rows, seeds, evidence, i, pc, passes, pass_start,
                   stats_df>>

\* one iteration of the commit loop
CommitUser ==
    /\ pc = "commit"
    /\ j <= Len(evidence)
    /\ LET user == evidence[j].user
           team == Decide(evidence[j].Reindeer, evidence[j].Penguin)
       IN  /\ IF ~Unlabeled(current_teams, user) \/ team = NoCommit
              THEN UNCHANGED <<current_teams, changed>>
              ELSE /\ current_teams' = Put(current_teams, user, team)
                   /\ changed' = TRUE
           /\ deferred' = IF Unlabeled(current_teams, user) /\ team = NoCommit
                          THEN deferred \cup {evidence[j]}
                          ELSE deferred
    /\ j' = j + 1
    /\ UNCHANGED <<rows, seeds, evidence, i, pc, passes, pass_start,
                   stats_df>>

\* the commit loop is exhausted: back to the test of the while loop
EndCommit ==
    /\ pc = "commit"
    /\ j > Len(evidence)
    /\ pc' = "while"
    /\ UNCHANGED <<rows, seeds, current_teams, changed, evidence, i, j,
                   passes, pass_start, deferred,
                   stats_df>>

\* the while test fails: return current_teams
Return ==
    /\ pc = "while"
    /\ ~changed
    /\ pc' = "done"
    /\ UNCHANGED <<rows, seeds, current_teams, changed, evidence, i, j,
                   passes, pass_start, deferred,
                   stats_df>>

\* ------------------------------------------------------------------------
\* main: the stats built from the frame and the teams infer_teams returned
\* ------------------------------------------------------------------------
Unknown == "Unknown"

\* the missing value concat leaves where a user has no count
NaN == -1

\* df[column].value_counts() over the first n rows: every value of the
\* column with the number of rows that hold it
ValueCounts(column, n) ==
    [user \in {rows[k][column] : k \in 1..n} |->
        Cardinality({k \in 1..n : rows[k][column] = user})]

\* a join that keeps only the users of both indexes
ConcatInner(made, received) ==
    [user \in DOMAIN made \cap DOMAIN received |->
        [AttacksMade |-> made[user], AttacksReceived |-> received[user]]]

\* pd.concat([made, received], axis=1): one row per user of either index
Concat(made, received) ==
    [user \in DOMAIN made \cup DOMAIN received |->
        [AttacksMade |-> IF user \in DOMAIN made THEN made[user] ELSE NaN,
         AttacksReceived |->
             IF user \in DOMAIN received THEN received[user] ELSE NaN]]

\* the missing values left as they are
FillNaKeep(value) == value

\* .fillna(0)
FillNa(value) == IF value = NaN THEN 0 ELSE value

\* a lookup whose default is a team
TeamOfDefault(teams, user) ==
    IF user \in DOMAIN teams THEN teams[user] ELSE Reindeer

\* solid_teams.get(u, "Unknown")
TeamOf(teams, user) == IF user \in DOMAIN teams THEN teams[user] ELSE Unknown

\* the stats frame with its Team column, the Unknowns dropped
BuildStats(teams) ==
    LET attacks_made == ValueCounts(1, Len(rows))
        attacks_received == ValueCounts(2, Len(rows))
        joined == Concat(attacks_made, attacks_received)
        frame == {[User |-> user,
                   AttacksMade |-> FillNa(joined[user].AttacksMade),
                   AttacksReceived |-> FillNa(joined[user].AttacksReceived),
                   Team |-> TeamOf(teams, user)] : user \in DOMAIN joined}
    IN  {record \in frame : record.Team # Unknown}

\* main after infer_teams returned: build stats_df and drop the Unknowns
Report ==
    /\ pc = "done"
    /\ stats_df' = BuildStats(current_teams)
    /\ pc' = "reported"
    /\ UNCHANGED <<rows, seeds, current_teams, changed, evidence, i, j,
                   passes, pass_start, deferred>>

Next ==
    \/ EnterPass
    \/ EvidenceRow
    \/ EndSweep
    \/ CommitUser
    \/ EndCommit
    \/ Return
    \/ Report

Spec == Init /\ [][Next]_vars

\* the loop is sequential code: a step that can be taken is taken
FairSpec == Spec /\ WF_vars(Next)

\* ------------------------------------------------------------------------
\* The same program with the orders left open: the frame in either
\* direction, and the items of the evidence dict iterated in any order
\* ------------------------------------------------------------------------
Reverse(rs) == [k \in 1..Len(rs) |-> rs[Len(rs) + 1 - k]]

\* the frames of InitTally with their rows in the reverse order
InitTallyReversed ==
    \E a \in 0..MaxCount, b \in 0..MaxCount, w \in 0..1, c \in 0..MaxLate,
       fx \in Faction, fy \in Faction :
        /\ rows = Reverse(Rep(<<"X", "W">>, w) \o Rep(<<"X", "Z">>, a)
                            \o Rep(<<"Z", "Y">>, b) \o Rep(<<"W", "Z">>, c))
        /\ seeds = [u \in {"X", "Y"} |-> IF u = "X" THEN fx ELSE fy]

InitAnyOrder ==
    /\ InitSmall \/ InitTally \/ InitTallyReversed
    /\ current_teams = seeds
    /\ changed = TRUE
    /\ evidence = << >>
    /\ i = 1
    /\ j = 1
    /\ pc = "while"
    /\ passes = 0
    /\ pass_start = seeds
    /\ deferred = {}
    /\ stats_df = {}

\* the sequences that hold the items of ev, each once
Orderings(ev) ==
    {e \in [1..Len(ev) -> {ev[k] : k \in 1..Len(ev)}] :
        {e[k] : k \in 1..Len(e)} = {ev[k] : k \in 1..Len(ev)}}

\* the sweep is exhausted: evidence.items() in whatever order the dict
\* gives its items
EndSweepAnyOrder ==
    /\ pc = "rows"
    /\ i > Len(rows)
    /\ evidence' \in Orderings(evidence)
    /\ pc' = "commit"
    /\ j' = 1
    /\ UNCHANGED <<rows, seeds, current_teams, changed, i, passes,
                   pass_start, deferred, stats_df>>

NextAnyOrder ==
    \/ EnterPass
    \/ EvidenceRow
    \/ EndSweepAnyOrder
    \/ CommitUser
    \/ EndCommit
    \/ Return
    \/ Report

SpecAnyOrder == InitAnyOrder /\ [][NextAnyOrder]_vars

\* ------------------------------------------------------------------------
\* Properties
\* ------------------------------------------------------------------------
TypeOK ==
    /\ rows \in Seq(Users \X Users)
    /\ seeds \in TeamMaps(Users)
    /\ current_teams \in TeamMaps(Users)
    /\ changed \in BOOLEAN
    /\ pc \in {"while", "rows", "commit", "done", "reported"}
    /\ passes \in 0..MaxPasses

\* the distinct identities among the seeds and the endpoints of the rows
Participants ==
    DOMAIN seeds \cup {rows[k][1] : k \in 1..Len(rows)}
                 \cup {rows[k][2] : k \in 1..Len(rows)}

ParticipantCount == Cardinality(Participants)

\* the rows in which user meets a labeled participant other than itself
\* whose team is the opposite of team
VotingRows(user, teams, team) ==
    {k \in 1..Len(rows) :
        \/ /\ rows[k][1] = user
           /\ rows[k][2] # user
           /\ rows[k][2] \in DOMAIN teams
           /\ teams[rows[k][2]] # team
        \/ /\ rows[k][2] = user
           /\ rows[k][1] # user
           /\ rows[k][1] \in DOMAIN teams
           /\ teams[rows[k][1]] # team}

\* the tally of user against the labels teams, as (Reindeer, Penguin)
TallyAgainst(user, teams) ==
    <<Cardinality(VotingRows(user, teams, Reindeer)),
      Cardinality(VotingRows(user, teams, Penguin))>>

\* both counts positive and neither more than double the other
InBand(r, p) == r > 0 /\ p > 0 /\ r <= 2 * p /\ p <= 2 * r

\* the number of rows equal to row
CountRows(row) == Cardinality({k \in 1..Len(rows) : rows[k] = row})

\* seeds {X: A, Y: B} and rows (X,Z) and (Z,Y), each k >= 1 times
TieScenario ==
    /\ DOMAIN seeds = {"X", "Y"}
    /\ seeds["X"] # seeds["Y"]
    /\ CountRows(<<"X", "Z">>) >= 1
    /\ CountRows(<<"X", "Z">>) = CountRows(<<"Z", "Y">>)
    /\ Len(rows) = 2 * CountRows(<<"X", "Z">>)

\* C1 - monotonicity of the labels: every step of infer_teams keeps every
\* key of current_teams with the value it had, so the mapping after a pass
\* is a superset of the mapping before it.
LabelsMonotonic ==
    [][\A u \in DOMAIN current_teams :
          /\ u \in DOMAIN current_teams'
          /\ current_teams'[u] = current_teams[u]]_vars

\* a run that returned after labeling in two successive passes
GrownOverTwoPasses ==
    /\ pc = "done"
    /\ passes = 3
    /\ Cardinality(DOMAIN seeds) = 1
    /\ Cardinality(DOMAIN current_teams) = 3

\* C2 - seed immutability: at every point of the run, hence in the mapping
\* returned, every seed has its seed label, whatever the rows are.
SeedsKept ==
    \A u \in DOMAIN seeds :
        u \in DOMAIN current_teams /\ current_teams[u] = seeds[u]

\* a run that returned, committed a label, and had a row joining two
\* different seeds of the same team
ContradictorySeedsReturned ==
    /\ pc = "done"
    /\ DOMAIN current_teams # DOMAIN seeds
    /\ \E k \in 1..Len(rows) :
          /\ rows[k][1] # rows[k][2]
          /\ rows[k][1] \in DOMAIN seeds
          /\ rows[k][2] \in DOMAIN seeds
          /\ seeds[rows[k][1]] = seeds[rows[k][2]]

\* C3 as stated - the number of passes, the final pass that commits nothing
\* included, never exceeds the participant count P.
PassesAtMostP == passes <= ParticipantCount

\* C3 - termination with a pass bound: the while loop reaches a pass that
\* commits nothing and returns, and the number of passes executed, that
\* final pass included, is at most P, or 1 when there is no participant.
TerminatesWithinBound ==
    /\ <>(pc = "done")
    /\ [](passes <= IF ParticipantCount = 0 THEN 1 ELSE ParticipantCount)

\* a run that returned after exactly P = 3 passes
ReturnedAfterPPasses ==
    /\ pc = "done"
    /\ ParticipantCount = 3
    /\ passes = 3

\* C4 - conservatism: an item of the commit loop whose counts are both
\* positive with neither more than double the other leaves its participant
\* unlabeled in that pass; a participant left unlabeled on such a tally is
\* unlabeled in the mapping returned when that is still its tally against
\* the returned labels; with seeds {X: A, Y: B} and the rows (X,Z) and
\* (Z,Y) k times each, only X and Y are labeled in the end.
Conservatism ==
    /\ pc = "commit" =>
          \A k \in 1..Len(evidence) :
              (k < j /\ InBand(evidence[k].Reindeer, evidence[k].Penguin))
                  => evidence[k].user \notin DOMAIN current_teams
    /\ pc = "done" =>
          \A d \in deferred :
              (/\ InBand(d.Reindeer, d.Penguin)
               /\ TallyAgainst(d.user, current_teams)
                      = <<d.Reindeer, d.Penguin>>)
                  => d.user \notin DOMAIN current_teams
    /\ (pc = "done" /\ TieScenario) => current_teams = seeds

\* the run of the scenario with k = 2 returned, having left Z on (2, 2)
TieScenarioReturned ==
    /\ pc = "done"
    /\ TieScenario
    /\ Len(rows) = 4
    /\ \E d \in deferred : d.user = "Z" /\ d.Reindeer = 2 /\ d.Penguin = 2

\* a participant left unlabeled on a tally in the band is labeled in the
\* mapping returned, its tally having grown in a later pass
DeferredThenLabeled ==
    /\ pc = "done"
    /\ \E d \in deferred :
          /\ InBand(d.Reindeer, d.Penguin)
          /\ d.user \in DOMAIN current_teams

\* the evidence items the commit loop of this pass has gone through
Processed == {k \in 1..Len(evidence) : pc = "commit" /\ k < j}

\* user has the label team
HasLabel(user, team) ==
    user \in DOMAIN current_teams /\ current_teams[user] = team

\* C5 - dominance commit with a strict boundary: an item with counts (r, p)
\* commits its participant to Reindeer when r > 2p and r > 0, to Penguin
\* when p > 2r and p > 0, and to neither by dominance when the count is at
\* most double a positive other count: (7, 3) commits to Reindeer, (5, 3)
\* and the exact double (6, 3) commit nothing.
DominanceCommit ==
    \A k \in Processed :
        LET user == evidence[k].user
            r == evidence[k].Reindeer
            p == evidence[k].Penguin
        IN  /\ (r > 2 * p /\ r > 0) => HasLabel(user, Reindeer)
            /\ (p > 2 * r /\ p > 0) => HasLabel(user, Penguin)
            /\ (r <= 2 * p /\ p > 0) => ~HasLabel(user, Reindeer)
            /\ (p <= 2 * r /\ r > 0) => ~HasLabel(user, Penguin)
            /\ (r = 7 /\ p = 3) => HasLabel(user, Reindeer)
            /\ (r \in {5, 6} /\ p = 3) => user \notin DOMAIN current_teams

\* the commit loop went through the tally (7, 3) and committed Reindeer
SevenThreeCommitted ==
    \E k \in Processed :
        /\ evidence[k].Reindeer = 7
        /\ evidence[k].Penguin = 3
        /\ HasLabel(evidence[k].user, Reindeer)

\* the commit loop went through the exact double (6, 3) and committed nothing
SixThreeDeferred ==
    \E k \in Processed :
        /\ evidence[k].Reindeer = 6
        /\ evidence[k].Penguin = 3
        /\ evidence[k].user \notin DOMAIN current_teams

\* seeds {X: A} and the row (X,Z) three times
OneSidedScenario ==
    /\ DOMAIN seeds = {"X"}
    /\ rows = <<<<"X", "Z">>, <<"X", "Z">>, <<"X", "Z">>>>

\* C6 - one-sided commit: an item with one count zero and the other k >= 1
\* commits its participant, in that pass, to the team of the positive
\* count; with seeds {X: A} and three rows (X,Z), Z has three votes for the
\* other team and none for A, and has that other team after pass 1.
OneSidedCommit ==
    /\ \A k \in Processed :
          /\ (evidence[k].Reindeer = 0 /\ evidence[k].Penguin >= 1)
                => HasLabel(evidence[k].user, Penguin)
          /\ (evidence[k].Penguin = 0 /\ evidence[k].Reindeer >= 1)
                => HasLabel(evidence[k].user, Reindeer)
    /\ (OneSidedScenario /\ passes = 1 /\ pc = "commit") =>
          /\ Len(evidence) = 1
          /\ evidence[1].user = "Z"
          /\ evidence[1][seeds["X"]] = 0
          /\ evidence[1].Reindeer + evidence[1].Penguin = 3
    /\ (OneSidedScenario /\ passes = 1 /\ pc = "while") =>
          (HasLabel("Z", Reindeer) <=> seeds["X"] = Penguin)
             /\ (HasLabel("Z", Penguin) <=> seeds["X"] = Reindeer)

\* pass 1 of the scenario is over and Z has the team X does not have
OneSidedScenarioCommitted ==
    /\ OneSidedScenario
    /\ seeds["X"] = Reindeer
    /\ passes = 1
    /\ pc = "while"
    /\ HasLabel("Z", Penguin)

\* the commit loop went through a single vote and committed it
SingleVoteCommitted ==
    \E k \in Processed :
        /\ evidence[k].Reindeer + evidence[k].Penguin = 1
        /\ evidence[k].user \in DOMAIN current_teams

\* the commit rule on a tally (r, p): the team it justifies, if any
RuleTeam(r, p) ==
    IF (r > 2 * p /\ r > 0) \/ (r > 0 /\ p = 0) THEN Reindeer
    ELSE IF (p > 2 * r /\ p > 0) \/ (p > 0 /\ r = 0) THEN Penguin
    ELSE NoCommit

\* the team the commit rule gives user on its tally against teams
TeamAgainst(user, teams) ==
    LET tally == TallyAgainst(user, teams)
    IN  RuleTeam(tally[1], tally[2])

\* the labels after one pass whose commits are all made at once on the
\* tallies against teams
PassResult(teams) ==
    LET given == [v \in Users \ DOMAIN teams |-> TeamAgainst(v, teams)]
    IN  [u \in DOMAIN teams
               \cup {v \in Users \ DOMAIN teams : given[v] # NoCommit}
            |-> IF u \in DOMAIN teams THEN teams[u] ELSE given[u]]

\* a pass has just gone through its commit loop
PassOver == (pc = "while" /\ passes >= 1) \/ pc = "done"

\* C7 - one evidence snapshot per pass: the tallies the commit loop works
\* on are those against the labels at the start of the pass, whatever the
\* loop has committed meanwhile, and the labels at the end of a pass are
\* those of committing every participant at once on these tallies.
OneSnapshotPerPass ==
    /\ pc = "commit" =>
          \A k \in 1..Len(evidence) :
              <<evidence[k].Reindeer, evidence[k].Penguin>>
                  = TallyAgainst(evidence[k].user, pass_start)
    /\ PassOver => current_teams = PassResult(pass_start)

\* a pass is over that committed two participants joined by a row
TwoNeighboursCommittedTogether ==
    /\ PassOver
    /\ \E k \in 1..Len(rows) :
          /\ rows[k][1] # rows[k][2]
          /\ {rows[k][1], rows[k][2]}
                \subseteq DOMAIN current_teams \ DOMAIN pass_start

\* the votes ev holds for user and team, none when user is no key of ev
Count(ev, user, team) ==
    IF user \in Keys(ev)
    THEN ev[CHOOSE k \in 1..Len(ev) : ev[k].user = user][team]
    ELSE 0

\* the team other than team
OtherTeam(team) == CHOOSE t \in Faction : t # team

\* from ev to ev2 exactly one vote is added, for user and team
AddsOneVote(ev, ev2, user, team) ==
    \A u \in Users, t \in Faction :
        Count(ev2, u, t) =
            Count(ev, u, t) + (IF u = user /\ t = team THEN 1 ELSE 0)

\* C8 - vote rule of the sweep: a row with exactly one labeled endpoint
\* adds exactly one vote, to the unlabeled endpoint and for the team
\* opposite to that of the labeled endpoint, be the labeled endpoint the
\* attacker or the victim; a row with both or neither endpoint labeled
\* adds no vote; every row adds its vote on top of those of earlier rows.
VoteRule ==
    [][(pc = "rows" /\ i <= Len(rows)) =>
          LET att == rows[i][1]
              vic == rows[i][2]
              attKnown == att \in DOMAIN current_teams
              vicKnown == vic \in DOMAIN current_teams
          IN  /\ (attKnown /\ ~vicKnown) =>
                    AddsOneVote(evidence, evidence', vic,
                                OtherTeam(current_teams[att]))
              /\ (vicKnown /\ ~attKnown) =>
                    AddsOneVote(evidence, evidence', att,
                                OtherTeam(current_teams[vic]))
              /\ (attKnown <=> vicKnown) =>
                    \A u \in Users, t \in Faction :
                        Count(evidence', u, t) = Count(evidence, u, t)
      ]_vars

\* the sweep went through the same row twice, the victim being the labeled
\* endpoint, and the attacker has two votes
RepeatedRowVotedTwice ==
    /\ pc = "rows"
    /\ i = 3
    /\ rows[1] = rows[2]
    /\ rows[1][2] \in DOMAIN current_teams
    /\ rows[1][1] \notin DOMAIN current_teams
    /\ \E t \in Faction : Count(evidence, rows[1][1], t) = 2

\* C9 - fixpoint maximality and soundness: in the mapping returned no
\* unlabeled participant has a tally against it that satisfies the commit
\* rule, and every label a step adds is the team the commit rule gives the
\* participant on its tally against the labels at the start of that pass.
FixpointMaximalAndSound ==
    /\ [](pc = "done" =>
            \A u \in Users \ DOMAIN current_teams :
                TeamAgainst(u, current_teams) = NoCommit)
    /\ [][\A u \in DOMAIN current_teams' \ DOMAIN current_teams :
              current_teams'[u] = TeamAgainst(u, pass_start)]_vars

\* a run returned with a label that is no seed and with an unlabeled
\* participant that has votes against the mapping returned
ReturnedWithUnresolved ==
    /\ pc = "done"
    /\ DOMAIN current_teams # DOMAIN seeds
    /\ \E u \in Users \ DOMAIN current_teams :
          TallyAgainst(u, current_teams) # <<0, 0>>

\* no row at all, or no seed at all
Degenerate == Len(rows) = 0 \/ DOMAIN seeds = {}

\* C10 - degenerate input: with no rows (any seeds) or no seeds (any rows)
\* infer_teams collects no evidence, commits nothing, and returns the seed
\* labels after exactly one pass.
DegenerateInput ==
    Degenerate =>
        /\ passes <= 1
        /\ evidence = << >>
        /\ current_teams = seeds
        /\ pc = "done" => passes = 1

\* a run without seeds over some rows has returned
NoSeedsReturned ==
    /\ pc = "done"
    /\ DOMAIN seeds = {}
    /\ Len(rows) > 0
    /\ passes = 1

\* a run with seeds over no rows has returned
NoRowsReturned ==
    /\ pc = "done"
    /\ DOMAIN seeds # {}
    /\ Len(rows) = 0
    /\ passes = 1

\* the number of rows whose attacker, and whose victim, is user
Outgoing(user) == Cardinality({k \in 1..Len(rows) : rows[k][1] = user})
Incoming(user) == Cardinality({k \in 1..Len(rows) : rows[k][2] = user})

\* the users that have a record in stats_df
Reported == {record.User : record \in stats_df}

\* C11 - reporter membership: the output has a record for a participant
\* exactly when the participant is attacker or victim of some row and has
\* a label in the mapping infer_teams returned, and no two records for one
\* participant; unresolved participants and participants of no row are
\* not in the output.
ReporterMembership ==
    pc = "reported" =>
        /\ \A u \in Users :
              u \in Reported <=>
                  (Outgoing(u) + Incoming(u) > 0 /\ u \in DOMAIN current_teams)
        /\ Cardinality(stats_df) = Cardinality(Reported)

\* a report with a record, made while a participant of the rows had no
\* label and a seed was in no row
ReportedSomeNotAll ==
    /\ pc = "reported"
    /\ stats_df # {}
    /\ \E u \in Users \ DOMAIN current_teams : Outgoing(u) + Incoming(u) > 0
    /\ \E u \in DOMAIN seeds : Outgoing(u) + Incoming(u) = 0

\* the record of user in stats_df has the counts of user
HasCountsRecord(user) ==
    \E record \in stats_df :
        /\ record.User = user
        /\ record.AttacksMade = Outgoing(user)
        /\ record.AttacksReceived = Incoming(user)

\* C12 as stated - a participant with one count zero has a record, with
\* that count as zero, whenever its other count is nonzero or it is a seed.
ZeroCountAppearsIfOtherOrSeed ==
    pc = "reported" =>
        \A u \in Users :
            (/\ Outgoing(u) = 0 \/ Incoming(u) = 0
             /\ Outgoing(u) + Incoming(u) > 0 \/ u \in DOMAIN seeds)
                => HasCountsRecord(u)

\* C12 - reporter zero-count rule: a participant with one count zero has a
\* record, with that count as zero, whenever its other count is nonzero
\* and it has a label in the mapping infer_teams returned.
ZeroCountAppearsIfOtherAndLabel ==
    pc = "reported" =>
        \A u \in Users :
            (/\ Outgoing(u) = 0 \/ Incoming(u) = 0
             /\ Outgoing(u) + Incoming(u) > 0
             /\ u \in DOMAIN current_teams)
                => HasCountsRecord(u)

\* a report with a record whose AttacksMade is zero and one whose
\* AttacksReceived is zero
ZeroCountsReported ==
    /\ pc = "reported"
    /\ \E record \in stats_df :
          record.AttacksMade = 0 /\ record.AttacksReceived > 0
    /\ \E record \in stats_df :
          record.AttacksReceived = 0 /\ record.AttacksMade > 0

\* C13 - reporter counts and team: every record has as AttacksMade the
\* number of rows whose attacker is its user, as AttacksReceived the number
\* of rows whose victim is its user, and as Team the label of its user in
\* the mapping infer_teams returned.
ReporterCounts ==
    pc = "reported" =>
        \A record \in stats_df :
            /\ record.AttacksMade = Outgoing(record.User)
            /\ record.AttacksReceived = Incoming(record.User)
            /\ record.User \in DOMAIN current_teams
            /\ record.Team = current_teams[record.User]

\* a report with the record of an inferred label whose user attacked more
\* than once and was attacked
InferredReportedWithCounts ==
    /\ pc = "reported"
    /\ \E record \in stats_df :
          /\ record.User \notin DOMAIN seeds
          /\ record.AttacksMade >= 2
          /\ record.AttacksReceived >= 1

\* the pairs (attacker, victim) that are rows
Edges == {rows[k] : k \in 1..Len(rows)}

\* some row of edges joins the two different participants u and v
Joined(edges, u, v) == u # v /\ (<<u, v>> \in edges \/ <<v, u>> \in edges)

Adjacent(u, v) == Joined(Edges, u, v)

\* the participants joined to a seed by a path of at most n rows of edges
RECURSIVE WithinBy(_, _)
WithinBy(edges, n) ==
    IF n = 0
    THEN DOMAIN seeds
    ELSE LET near == WithinBy(edges, n - 1)
         IN  near \cup {u \in Users \ near : \E v \in near : Joined(edges, u, v)}

Within(n) == WithinBy(Edges, n)

\* C14 - unreached participants stay unlabeled: a participant that is no
\* seed and has no row with a labeled participant has no label, at any
\* point and so in the mapping returned; every label present during pass n
\* belongs to a participant joined to a seed by a path of at most n rows,
\* so a participant is committed no earlier than the pass of its distance.
UnreachedStayUnlabeled ==
    LET edges == Edges
    IN  /\ \A u \in DOMAIN current_teams \ DOMAIN seeds :
              \E v \in DOMAIN current_teams : Joined(edges, u, v)
        /\ DOMAIN current_teams \subseteq WithinBy(edges, passes)

\* a run returned with a committed label and with a participant of the
\* rows that no row joins to a labeled participant
UnreachedReturned ==
    /\ pc = "done"
    /\ DOMAIN current_teams # DOMAIN seeds
    /\ \E u \in Users \ DOMAIN current_teams :
          /\ Outgoing(u) + Incoming(u) > 0
          /\ \A v \in DOMAIN current_teams : ~Adjacent(u, v)

\* a run returned with a label at distance 2 of the seeds
DistanceTwoLabeled ==
    /\ pc = "done"
    /\ \E u \in DOMAIN current_teams : u \notin Within(1)

\* C15 - branch precedence preserves behaviour: every tally of the sweep
\* has a vote, takes a dominance branch or none, never a one-sided branch,
\* takes a dominance branch when one count is zero and the other positive,
\* never satisfies both dominance conditions, and the outcome of the commit
\* loop is the outcome of the two dominance conditions alone.
BranchPrecedence ==
    \A k \in 1..Len(evidence) :
        LET user == evidence[k].user
            r == evidence[k].Reindeer
            p == evidence[k].Penguin
            domR == r > 2 * p /\ r > 0
            domP == p > 2 * r /\ p > 0
        IN  /\ r + p >= 1
            /\ Branch(r, p) \in {0, 1, 2}
            /\ ((r = 0 /\ p > 0) \/ (p = 0 /\ r > 0)) => Branch(r, p) \in {1, 2}
            /\ ~(domR /\ domP)
            /\ k \in Processed =>
                  /\ domR => HasLabel(user, Reindeer)
                  /\ domP => HasLabel(user, Penguin)
                  /\ (~domR /\ ~domP) => user \notin DOMAIN current_teams

\* the commit loop went through the tally r = 5, p = 0 and committed it
FiveZeroCommitted ==
    \E k \in Processed :
        /\ evidence[k].Reindeer = 5
        /\ evidence[k].Penguin = 0
        /\ HasLabel(evidence[k].user, Reindeer)

\* C16 - the evidence tally is rebuilt, not accumulated: the sweep of every
\* pass starts on an empty tally; the tally has one entry per key, each
\* with a positive count and none for a participant labeled at the start
\* of the pass; and the tally the commit loop works on counts, for every
\* participant unlabeled at the start of the pass, exactly the rows that
\* join it to participants labeled at the start of the pass.
TallyRebuilt ==
    /\ (pc = "rows" /\ i = 1) => evidence = << >>
    /\ pc \in {"rows", "commit"} =>
          /\ Cardinality(Keys(evidence)) = Len(evidence)
          /\ \A k \in 1..Len(evidence) :
                /\ evidence[k].Reindeer + evidence[k].Penguin >= 1
                /\ evidence[k].user \notin DOMAIN pass_start
    /\ pc = "commit" =>
          \A u \in Users \ DOMAIN pass_start :
              <<Count(evidence, u, Reindeer), Count(evidence, u, Penguin)>>
                  = TallyAgainst(u, pass_start)

\* the commit loop of pass 2 starts on a tally with an entry for a
\* participant that had an entry in pass 1
SecondPassTally ==
    /\ pc = "commit"
    /\ passes = 2
    /\ j = 1
    /\ \E k \in 1..Len(evidence) :
          \E d \in deferred : d.user = evidence[k].user

\* the votes the rows rs give user for team against the labels teams: the
\* rows that join user to another participant labeled with the other team
VotesOn(rs, user, teams, team) ==
    Cardinality({k \in 1..Len(rs) :
        \/ /\ rs[k][1] = user
           /\ rs[k][2] # user
           /\ rs[k][2] \in DOMAIN teams
           /\ teams[rs[k][2]] # team
        \/ /\ rs[k][2] = user
           /\ rs[k][1] # user
           /\ rs[k][1] \in DOMAIN teams
           /\ teams[rs[k][1]] # team})

\* the team Decide gives user on its votes in rs against teams
DecidedOn(rs, user, teams) ==
    Decide(VotesOn(rs, user, teams, Reindeer), VotesOn(rs, user, teams, Penguin))

\* the labels after one pass over rs from the labels teams
PassOn(rs, teams) ==
    LET decided == [v \in Users \ DOMAIN teams |-> DecidedOn(rs, v, teams)]
    IN  [u \in DOMAIN teams
               \cup {v \in Users \ DOMAIN teams : decided[v] # NoCommit}
            |-> IF u \in DOMAIN teams THEN teams[u] ELSE decided[u]]

\* the labels before pass 1 and after each of n passes over rs from start
RECURSIVE LabelsOn(_, _, _)
LabelsOn(rs, start, n) ==
    IF n = 0
    THEN <<start>>
    ELSE LET before == LabelsOn(rs, start, n - 1)
         IN  Append(before, PassOn(rs, before[n]))

\* labels are the labels after n passes; with last, pass n is moreover the
\* first pass that commits nothing
RunsTo(rs, start, n, labels, last) ==
    LET after == LabelsOn(rs, start, n)
    IN  /\ after[n + 1] = labels
        /\ last => /\ after[n + 1] = after[n]
                   /\ \A m \in 1..(n - 1) : after[m + 1] # after[m]

\* rs with its first two rows exchanged, and with its first row moved last
SwapFirstTwo(rs) ==
    IF Len(rs) < 2
    THEN rs
    ELSE [k \in 1..Len(rs) |->
            IF k = 1 THEN rs[2] ELSE IF k = 2 THEN rs[1] ELSE rs[k]]

Rotate(rs) == IF Len(rs) = 0 THEN rs ELSE Append(Tail(rs), Head(rs))

\* rs and two reorderings of it that generate every permutation
Reorderings(rs) == {rs, SwapFirstTwo(rs), Rotate(rs)}

\* C17 - order independence: with the items of the evidence dict iterated
\* in any order, the labels after every pass and the number of passes of a
\* run are those of the pass-by-pass computation on the rows, and that
\* computation gives the same labels and the same number of passes on the
\* reordered rows.
OrderIndependent ==
    PassOver =>
        \A rs \in Reorderings(rows) :
            RunsTo(rs, seeds, passes, current_teams, pc = "done")

\* the first row that votes on user in this pass
FirstVoteRow(user) ==
    CHOOSE k \in 1..Len(rows) :
        /\ k \in VotingRows(user, pass_start, Reindeer)
                    \cup VotingRows(user, pass_start, Penguin)
        /\ \A m \in 1..(k - 1) :
              m \notin VotingRows(user, pass_start, Reindeer)
                        \cup VotingRows(user, pass_start, Penguin)

\* a first pass is over that committed two participants, the one voted on
\* later in the sweep before the other
CommittedAgainstSweepOrder ==
    /\ pc = "while"
    /\ passes = 1
    /\ Len(evidence) >= 2
    /\ {evidence[1].user, evidence[2].user} \subseteq DOMAIN current_teams
    /\ FirstVoteRow(evidence[1].user) > FirstVoteRow(evidence[2].user)

\* teams with every team exchanged for the other one
SwapTeams(teams) == [u \in DOMAIN teams |-> OtherTeam(teams[u])]

\* C18 - faction symmetry: the labels after every pass of a run are the
\* exchanged labels of the pass-by-pass computation from the exchanged
\* seeds on the same rows, which so labels the same participants in the
\* same passes, each with the other team, and stops after the same number
\* of passes.
FactionSymmetry ==
    PassOver =>
        RunsTo(rows, SwapTeams(seeds), passes, SwapTeams(current_teams),
               pc = "done")

\* a run returned with a committed Reindeer and a committed Penguin
BothTeamsCommitted ==
    /\ pc = "done"
    /\ \E u \in Users \ DOMAIN seeds : HasLabel(u, Reindeer)
    /\ \E u \in Users \ DOMAIN seeds : HasLabel(u, Penguin)
====
